---- MODULE Spec2Model ----
(***************************************************************************)
(* Model of api/views.py: the text extractor extract_text and the request  *)
(* handler process_cv_view with its bounded retry loop around the hosted   *)
(* model call.                                                             *)
(*                                                                         *)
(* Python strings that the code inspects character by character (paragraph *)
(* text, file names, extracted text) are sequences of one-character        *)
(* strings.  Values whose inside the code never inspects (error texts,     *)
(* response messages, JSON leaf strings) are TLA+ strings.                 *)
(***************************************************************************)
EXTENDS Integers, Sequences, FiniteSets, TLC

\* ------------------------------------------------------------------------
\* Bounds of the generated DOCX inputs of SpecExtract and of the number of
\* concurrent requests of SpecConc.
MaxTextLen == 2
MaxParas == 2
MaxRows == 1
MaxCells == 2
NumRequests == 2

\* ------------------------------------------------------------------------
\* Program constant, views.py line 33.
MAX_RETRIES == 3

\* ------------------------------------------------------------------------
\* Python str operations used by extract_text.

Whitespace == {" ", "\n"}

RECURSIVE LStrip(_)
LStrip(s) ==
    IF s = <<>> THEN s
    ELSE IF Head(s) \in Whitespace THEN LStrip(Tail(s)) ELSE s

RECURSIVE RStrip(_)
RStrip(s) ==
    IF s = <<>> THEN s
    ELSE IF s[Len(s)] \in Whitespace THEN RStrip(SubSeq(s, 1, Len(s) - 1)) ELSE s

\* str.strip(): leading and trailing whitespace removed.
Strip(s) == RStrip(LStrip(s))

\* sep.join(parts)
RECURSIVE Join(_, _)
Join(parts, sep) ==
    IF parts = <<>> THEN <<>>
    ELSE IF Len(parts) = 1 THEN parts[1]
    ELSE parts[1] \o sep \o Join(Tail(parts), sep)

\* s.split(ch): the pieces of s between the occurrences of ch; never empty.
RECURSIVE Split(_, _)
Split(s, ch) ==
    IF s = <<>> THEN << <<>> >>
    ELSE LET rest == Split(Tail(s), ch)
         IN  IF Head(s) = ch THEN << <<>> >> \o rest
             ELSE << <<Head(s)>> \o rest[1] >> \o Tail(rest)

LowerChar(c) ==
    CASE c = "D" -> "d" [] c = "O" -> "o" [] c = "C" -> "c" [] c = "X" -> "x"
      [] c = "P" -> "p" [] c = "F" -> "f" [] c = "T" -> "t"
      [] OTHER -> c

\* str.lower()
Lower(s) == [i \in 1..Len(s) |-> LowerChar(s[i])]

\* s.startswith(('*', '-', U+2022)); the bullet character U+2022 is written
\* "U+2022" here, one element of a character sequence like any other.
BulletMarks == {"*", "-", "U+2022"}
StartsWithBullet(s) == s # <<>> /\ Head(s) \in BulletMarks

\* para.style.name.startswith('List'); style names are kept whole.
ListStyles == {"List Bullet", "List Number"}
StyleStartsWithList(style) == style \in ListStyles

\* The literal ' | ' and '\n' separators.
CellSep == <<" ", "|", " ">>
LineSep == <<"\n">>

\* ------------------------------------------------------------------------
\* Sequence helpers for the comprehensions and loops of extract_text.

RECURSIVE SelectNonBlankStripped(_)
SelectNonBlankStripped(texts) ==
    IF texts = <<>> THEN <<>>
    ELSE (IF Strip(Head(texts)) # <<>> THEN <<Strip(Head(texts))>> ELSE <<>>)
         \o SelectNonBlankStripped(Tail(texts))

RECURSIVE Flatten(_)
Flatten(seqs) == IF seqs = <<>> THEN <<>> ELSE Head(seqs) \o Flatten(Tail(seqs))

\* ------------------------------------------------------------------------
\* Values of the request's JSON fields, as far as the code tells them apart:
\* absent/null, a number, a plain string, and a non-empty string holding
\* base64 text (with the bytes it encodes and whether its padding is right).

NoFile == [fmt |-> "none", paragraphs |-> <<>>, tables |-> <<>>,
           text |-> <<>>, pages |-> <<>>]

NoneVal == [t |-> "none", n |-> 0, chars |-> <<>>, padding_ok |-> FALSE, payload |-> NoFile]
NumVal(k) == [NoneVal EXCEPT !.t = "num", !.n = k]
StrVal(cs) == [NoneVal EXCEPT !.t = "str", !.chars = cs]
B64Val(ok, file) == [NoneVal EXCEPT !.t = "b64", !.padding_ok = ok, !.payload = file]

\* Python truthiness of a field value (views.py line 237, "not x").
Truthy(v) ==
    CASE v.t = "none" -> FALSE
      [] v.t = "num" -> v.n # 0
      [] v.t = "str" -> v.chars # <<>>
      [] v.t = "b64" -> TRUE

\* The decoded bytes, by what the parsing libraries make of them.
DocxFile(paras, tables) == [NoFile EXCEPT !.fmt = "docx", !.paragraphs = paras, !.tables = tables]
PdfFile(pages) == [NoFile EXCEPT !.fmt = "pdf", !.pages = pages]
TxtFile(text) == [NoFile EXCEPT !.fmt = "txt", !.text = text]
DocFile(text) == [NoFile EXCEPT !.fmt = "doc", !.text = text]
GarbageFile == [NoFile EXCEPT !.fmt = "garbage"]

\* An exception raised inside a function, or its value.
Raise == [raised |-> TRUE, text |-> <<>>]
Return(text) == [raised |-> FALSE, text |-> text]

\* base64.b64decode(base64_content): TypeError for a non-string,
\* binascii.Error for wrong padding; the empty string decodes to no bytes,
\* which read as empty UTF-8 text.
B64Decode(content) ==
    CASE content.t = "b64" ->
           IF content.padding_ok THEN [raised |-> FALSE, binary |-> content.payload]
           ELSE [raised |-> TRUE, binary |-> NoFile]
      [] content.t = "str" /\ content.chars = <<>> ->
           [raised |-> FALSE, binary |-> TxtFile(<<>>)]
      [] OTHER -> [raised |-> TRUE, binary |-> NoFile]

\* ext = filename.lower().split('.')[-1]
Ext(chars) == LET parts == Split(Lower(chars), ".") IN parts[Len(parts)]

ExtDocx == <<"d", "o", "c", "x">>
ExtPdf == <<"p", "d", "f">>
ExtTxt == <<"t", "x", "t">>
ExtDoc == <<"d", "o", "c">>

\* Lines 181-183: the stripped text of the paragraphs whose text is not blank.
RECURSIVE ParagraphLines(_)
ParagraphLines(paras) ==
    IF paras = <<>> THEN <<>>
    ELSE (IF Strip(Head(paras).text) # <<>> THEN <<Strip(Head(paras).text)>> ELSE <<>>)
         \o ParagraphLines(Tail(paras))

\* Lines 186-189: one line per row that has a non-blank cell.
RECURSIVE RowLines(_)
RowLines(rows) ==
    IF rows = <<>> THEN <<>>
    ELSE LET row_text == SelectNonBlankStripped(Head(rows))
         IN  (IF row_text # <<>> THEN <<Join(row_text, CellSep)>> ELSE <<>>)
             \o RowLines(Tail(rows))

\* Lines 185-189: the rows of every table, table by table.
RECURSIVE TableLines(_)
TableLines(tables) ==
    IF tables = <<>> THEN <<>>
    ELSE RowLines(Head(tables)) \o TableLines(Tail(tables))

\* Line 192: the test of the second walk over the paragraphs.
IsBullet(para) == StyleStartsWithList(para.style) \/ StartsWithBullet(Strip(para.text))

\* Lines 191-193: the stripped text of every paragraph that passes the test.
RECURSIVE BulletLines(_)
BulletLines(paras) ==
    IF paras = <<>> THEN <<>>
    ELSE (IF IsBullet(Head(paras)) THEN <<Strip(Head(paras).text)>> ELSE <<>>)
         \o BulletLines(Tail(paras))

\* Lines 179-193.
DocxLines(doc) ==
    ParagraphLines(doc.paragraphs) \o TableLines(doc.tables) \o BulletLines(doc.paragraphs)

\* Line 208: the cells that are not None and not blank, stripped.
RECURSIVE PdfRowText(_)
PdfRowText(row) ==
    IF row = <<>> THEN <<>>
    ELSE (IF ~Head(row).none /\ Strip(Head(row).text) # <<>>
          THEN <<Strip(Head(row).text)>> ELSE <<>>)
         \o PdfRowText(Tail(row))

RECURSIVE PdfRowLines(_)
PdfRowLines(rows) ==
    IF rows = <<>> THEN <<>>
    ELSE (IF PdfRowText(Head(rows)) # <<>>
          THEN <<Join(PdfRowText(Head(rows)), CellSep)>> ELSE <<>>)
         \o PdfRowLines(Tail(rows))

\* Lines 198-210: the non-blank lines of the page's text, then its table rows.
PageLines(page) ==
    (IF page.text # <<>> THEN SelectNonBlankStripped(Split(page.text, "\n")) ELSE <<>>)
    \o PdfRowLines(Flatten(page.tables))

RECURSIVE PdfLines(_)
PdfLines(pages) ==
    IF pages = <<>> THEN <<>> ELSE PageLines(Head(pages)) \o PdfLines(Tail(pages))

\* Lines 176-220: full_text, or the exception raised on the way.  Document()
\* and pdfplumber.open() raise on bytes that are not of their format,
\* bytes.decode('utf-8') raises on bytes that are not UTF-8 text, and
\* textract.process raises on what it cannot convert.
FullText(binary, ext) ==
    CASE ext = ExtDocx ->
           IF binary.fmt = "docx"
           THEN [raised |-> FALSE, lines |-> DocxLines(binary)]
           ELSE [raised |-> TRUE, lines |-> <<>>]
      [] ext = ExtPdf ->
           IF binary.fmt = "pdf"
           THEN [raised |-> FALSE, lines |-> PdfLines(binary.pages)]
           ELSE [raised |-> TRUE, lines |-> <<>>]
      [] ext = ExtTxt ->
           IF binary.fmt = "txt"
           THEN [raised |-> FALSE, lines |-> <<Strip(binary.text)>>]
           ELSE [raised |-> TRUE, lines |-> <<>>]
      [] ext = ExtDoc ->
           IF binary.fmt = "doc"
           THEN [raised |-> FALSE, lines |-> <<Strip(binary.text)>>]
           ELSE [raised |-> TRUE, lines |-> <<>>]
      [] OTHER -> [raised |-> TRUE, lines |-> <<>>]

\* Lines 173-224, the body of the try block.
ExtractTry(base64_content, filename) ==
    IF filename.t # "str" THEN Raise
    ELSE LET decoded == B64Decode(base64_content)
         IN  IF decoded.raised THEN Raise
             ELSE LET full_text == FullText(decoded.binary, Ext(filename.chars))
                  IN  IF full_text.raised THEN Raise
                      ELSE Return(Join(full_text.lines, LineSep))

\* extract_text with its handler removed: the exception reaches the caller.
extract_text_uncaught(base64_content, filename) == ExtractTry(base64_content, filename)

\* Lines 171-227: every exception of the body is caught and "" returned.
extract_text(base64_content, filename) ==
    LET r == ExtractTry(base64_content, filename)
    IN  IF r.raised THEN Return(<<>>) ELSE r

\* ------------------------------------------------------------------------
\* JSON values as json.loads returns them: None, str, list, dict.

JNull == [t |-> "null", s |-> "", items |-> <<>>, fields |-> <<>>]
JStr(x) == [JNull EXCEPT !.t = "str", !.s = x]
JArr(xs) == [JNull EXCEPT !.t = "arr", !.items = xs]
JObj(fs) == [JNull EXCEPT !.t = "obj", !.fields = fs]

\* ------------------------------------------------------------------------
\* WB_CV_SCHEMA, lines 39-169.

StringSchema == [type |-> "string", required |-> {}, properties |-> <<>>, items |-> <<>>]
ObjectSchema(req, props) ==
    [type |-> "object", required |-> req, properties |-> props, items |-> <<>>]
ArraySchema(item) ==
    [type |-> "array", required |-> {}, properties |-> <<>>, items |-> <<item>>]
StringProperties(names) == [f \in names |-> StringSchema]

ContactFields == {"phone", "email"}
EducationFields == {"school_university", "degree", "date_obtained"}
LanguageFields == {"language", "speaking", "reading", "writing"}
EmploymentFields ==
    {"from", "to", "employer", "position", "for_references", "name", "designation",
     "telephone", "email", "location", "summary_of_activities"}
WorkFields ==
    {"name", "year", "location", "client", "main_features", "position_held", "activities"}

TopStringFields ==
    {"name", "proposed_position", "employer", "date_of_birth", "nationality",
     "membership_in_professional_associations", "publications", "other_training",
     "countries_experience", "worked_for_world_bank"}

TopRequired ==
    {"name", "expert_contact_information", "proposed_position", "employer",
     "date_of_birth", "nationality", "education",
     "membership_in_professional_associations", "publications", "other_training",
     "countries_experience", "languages", "employment_record", "detailed_tasks",
     "work_undertaken", "worked_for_world_bank"}

RecordArraySchema(names) == ArraySchema(ObjectSchema(names, StringProperties(names)))

WB_CV_SCHEMA ==
    ObjectSchema(TopRequired,
        [f \in TopRequired |->
            CASE f \in TopStringFields -> StringSchema
              [] f = "expert_contact_information" ->
                   ObjectSchema(ContactFields, StringProperties(ContactFields))
              [] f = "education" -> RecordArraySchema(EducationFields)
              [] f = "languages" -> RecordArraySchema(LanguageFields)
              [] f = "employment_record" -> RecordArraySchema(EmploymentFields)
              [] f = "detailed_tasks" -> ArraySchema(StringSchema)
              [] f = "work_undertaken" -> RecordArraySchema(WorkFields)])

\* ------------------------------------------------------------------------
\* What the hosted model can answer to generate_content (lines 292-294): a
\* provider error, any other exception, or a response whose text either
\* parses as JSON (to the given value) or does not.

ProviderErrors == {"429 quota exceeded", "503 service unavailable"}

EmptyStrings(names) == [f \in names |-> JStr("")]

ProfileEmpty ==
    JObj([f \in TopRequired |->
            CASE f \in TopStringFields -> JStr("")
              [] f = "expert_contact_information" -> JObj(EmptyStrings(ContactFields))
              [] OTHER -> JArr(<<>>)])

ProfileJane ==
    JObj([ProfileEmpty.fields EXCEPT
            !["name"] = JStr("Jane Doe"),
            !["expert_contact_information"] =
                JObj([EmptyStrings(ContactFields) EXCEPT !["email"] = JStr("jane@x.com")]),
            !["languages"] =
                JArr(<< JObj([EmptyStrings(LanguageFields) EXCEPT
                                !["language"] = JStr("English")]) >>),
            !["detailed_tasks"] = JArr(<<JStr("Reporting")>>)])

\* Bodies that parse but do not follow the schema.
ProfileNullName == JObj([ProfileEmpty.fields EXCEPT !["name"] = JNull])
ProfileShortLanguage ==
    JObj([ProfileEmpty.fields EXCEPT
            !["languages"] =
                JArr(<< JObj([f \in LanguageFields \ {"writing"} |-> JStr("")]) >>)])

JsonText(value) == [parses |-> TRUE, value |-> value]
NotJsonText == [parses |-> FALSE, value |-> JNull]

ModelTexts ==
    {JsonText(ProfileEmpty), JsonText(ProfileJane), JsonText(ProfileNullName),
     JsonText(ProfileShortLanguage), JsonText(JObj(<<>>)), NotJsonText}

\* json.loads(json_text), line 294.
JsonLoads(text) ==
    IF text.parses THEN [raised |-> FALSE, value |-> text.value]
    ELSE [raised |-> TRUE, value |-> JNull]

\* ------------------------------------------------------------------------
\* Request bodies (request.body, line 233): bytes that are not UTF-8, text
\* that is not JSON, JSON that is not an object, or an object with its
\* file_content and filename members.

NoRequest == [kind |-> "none", file_content |-> NoneVal, filename |-> NoneVal]
BadUtf8Body == [NoRequest EXCEPT !.kind = "bad_utf8"]
BadJsonBody == [NoRequest EXCEPT !.kind = "bad_json"]
NonObjectBody == [NoRequest EXCEPT !.kind = "non_object"]
ObjectBody(fc, fn) == [kind |-> "object", file_content |-> fc, filename |-> fn]

NameDocx == <<"c", "v", ".", "d", "o", "c", "x">>
NameDocxUpper == <<"c", "v", ".", "D", "O", "C", "X">>
NameTxt == <<"c", ".", "v", ".", "t", "x", "t">>
NamePdf == <<"c", "v", ".", "p", "d", "f">>
NameDoc == <<"c", "v", ".", "d", "o", "c">>
NameExe == <<"c", "v", ".", "e", "x", "e">>
NameNoDot == <<"c", "v">>

SampleNames == {NameDocx, NameDocxUpper, NameTxt, NamePdf, NameDoc, NameExe, NameNoDot}

Para(style, text) == [style |-> style, text |-> text]
Cell(text) == [none |-> FALSE, text |-> text]
NoneCell == [none |-> TRUE, text |-> <<>>]

SampleFiles ==
    { TxtFile(<<" ", "a", "\n", "b", " ">>),
      TxtFile(<<" ", "\n">>),
      DocxFile(<< Para("Normal", <<"a", " ">>), Para("List Bullet", <<"-", "b">>) >>,
               << << << <<"a">>, <<" ">>, <<"b">> >> >> >>),
      DocxFile(<< Para("List Bullet", <<" ">>), Para("List Number", <<>>) >>, <<>>),
      DocxFile(<< Para("Normal", <<" ">>) >>, << << << <<>> >> >> >>),
      PdfFile(<< [text |-> <<"a", "\n", " ", "\n", "b">>,
                  tables |-> << << <<Cell(<<"a">>), NoneCell, Cell(<<"b">>)>> >> >>] >>),
      PdfFile(<< [text |-> <<>>, tables |-> <<>>] >>),
      DocFile(<<"a">>),
      GarbageFile }

FieldValues ==
    {NoneVal, NumVal(0), NumVal(7), StrVal(<<>>)}

ContentValues ==
    FieldValues \cup {B64Val(TRUE, f) : f \in SampleFiles}
    \cup {B64Val(FALSE, GarbageFile)}

NameValues == FieldValues \cup {StrVal(n) : n \in SampleNames}

RequestBodies ==
    {BadUtf8Body, BadJsonBody, NonObjectBody}
    \cup {ObjectBody(fc, fn) : fc \in ContentValues, fn \in NameValues}

\* The bodies of the concurrent runs: one of each way the handler can go.
ConcBodies ==
    { BadJsonBody,
      ObjectBody(B64Val(TRUE, TxtFile(<<"a">>)), StrVal(NameTxt)),
      ObjectBody(B64Val(TRUE, GarbageFile), StrVal(NameDocx)) }

\* ------------------------------------------------------------------------
\* Responses (JsonResponse): status, the "success" member when there is one,
\* the message or error text, the cv_data member, and the last provider
\* error that the 503 text ends with.

NoResponse ==
    [status |-> 0, success |-> "absent", message |-> "", cv_data |-> JNull, last |-> ""]
ErrorResponse(status, message) ==
    [NoResponse EXCEPT !.status = status, !.success = "false", !.message = message]
SuccessResponse(cv_data) ==
    [NoResponse EXCEPT !.status = 200, !.success = "true", !.cv_data = cv_data]
UnavailableResponse(last_err) ==
    [NoResponse EXCEPT !.status = 503,
                       !.message = "Failed to communicate with AI service after 3 retries. Last error: ",
                       !.last = last_err]

\* ------------------------------------------------------------------------
\* generate_docx_view, lines 350-374: its request bodies and responses.

\* The other values json.loads returns: numbers and booleans.
JNum(digits) == [JNull EXCEPT !.t = "num", !.s = digits]
JBool(word) == [JNull EXCEPT !.t = "bool", !.s = word]

\* Python truthiness of a parsed JSON value (line 357, "not cv_data").
JTruthy(v) ==
    CASE v.t = "null" -> FALSE
      [] v.t = "str" -> v.s # ""
      [] v.t = "num" -> v.s # "0"
      [] v.t = "bool" -> v.s = "true"
      [] v.t = "arr" -> v.items # <<>>
      [] v.t = "obj" -> DOMAIN v.fields # {}

\* hasattr(value, 'read'): no value that json.loads returns (dict, list, str,
\* int, float, bool, None) has a read method; only a stream would.
HasRead(v) == v.t = "stream"

\* str.replace(" ", "_") on the names of the sample profiles.
Underscored(name) ==
    CASE name = "Jane Doe" -> "Jane_Doe"
      [] OTHER -> name

\* Bodies: bytes that are not UTF-8, text that is not JSON, JSON that is not
\* an object, or an object with or without a cv_data member.
GenBody(kind, has, value) == [kind |-> kind, has_cv_data |-> has, cv_data |-> value]

GenFields == {"name", "employer", "nationality"}
GenValues == {JStr("Jane Doe"), JStr(""), JNull}

\* Profile mappings: every choice of members among GenFields with every
\* choice of their values, and the sample profiles.
GenMappings ==
    {JObj(fs) : fs \in UNION {[S -> GenValues] : S \in SUBSET GenFields}}
    \cup {ProfileEmpty, ProfileJane, ProfileNullName, ProfileShortLanguage}

GenOtherValues ==
    {JNull, JStr(""), JStr("abc"), JNum("0"), JNum("7"), JBool("false"),
     JBool("true"), JArr(<<>>), JArr(<<JStr("x")>>)}

GenBodies ==
    {GenBody("bad_utf8", FALSE, JNull), GenBody("bad_json", FALSE, JNull),
     GenBody("non_object", FALSE, JNull), GenBody("object", FALSE, JNull)}
    \cup {GenBody("object", TRUE, v) : v \in GenMappings \cup GenOtherValues}

NoGenResponse ==
    [status |-> 0, success |-> "absent", message |-> "", attachment |-> FALSE,
     filename |-> ""]
GenErrorResponse(status, message) ==
    [NoGenResponse EXCEPT !.status = status, !.success = "false", !.message = message]
\* Lines 362-368: the HttpResponse with its Content-Disposition header.
DownloadResponse(name) ==
    [NoGenResponse EXCEPT !.status = 200, !.attachment = TRUE, !.filename = name]

\* Lines 370-374: the handlers of the try block.
GenHandler(exc_type) ==
    IF exc_type = "JSONDecodeError"
    THEN GenErrorResponse(400, "Invalid JSON body.")
    ELSE GenErrorResponse(500, "Server error during DOCX generation: ")

\* Lines 360-368: cv_data is read as a stream; its name member names the file.
StreamDocx(cv_data) ==
    IF ~HasRead(cv_data) THEN GenHandler("AttributeError")
    ELSE IF cv_data.t # "obj" THEN GenHandler("AttributeError")
    ELSE LET name == IF "name" \in DOMAIN cv_data.fields
                     THEN cv_data.fields["name"] ELSE JStr("Document")
         IN  IF name.t # "str" THEN GenHandler("AttributeError")
             ELSE DownloadResponse(Underscored(name.s))

\* Lines 352-374: the response to a body.
generate_docx_view(body) ==
    CASE body.kind = "bad_json" -> GenHandler("JSONDecodeError")
      [] body.kind = "bad_utf8" -> GenHandler("UnicodeDecodeError")
      [] body.kind = "non_object" -> GenHandler("AttributeError")
      [] body.kind = "object" ->
           LET cv_data == IF body.has_cv_data THEN body.cv_data ELSE JNull
           IN  IF ~JTruthy(cv_data)
               THEN GenErrorResponse(400, "CV data is missing.")
               ELSE StreamDocx(cv_data)

GenOff == [pc |-> "off", body |-> GenBody("none", FALSE, JNull), response |-> NoGenResponse]

\* ------------------------------------------------------------------------
\* State.  One slot per request being handled by process_cv_view; the locals
\* of the handler keep their names.  calls, errors, last_reply, outstanding and sleeps
\* observe the handler's use of generate_content (the calls made, the provider
\* errors raised in order, the kind of the latest answer) and of time.sleep; xt is one
\* call of extract_text on its own, gen one request to generate_docx_view.

VARIABLES pc, request, cv_text, attempt, last_error, last_reply, calls, errors,
          outstanding, sleeps, response, xt, gen

vars == <<pc, request, cv_text, attempt, last_error, last_reply, calls, errors,
          outstanding, sleeps, response, xt, gen>>

Requests == 1..NumRequests

NotExtracted == [called |-> FALSE, text |-> <<>>]

\* A retry loop that catches every exception (except Exception).
CaughtByRetryAny(exc_type) == TRUE

\* Line 297: the only exception type the retry loop catches.
CaughtByRetry(exc_type) == exc_type = "GoogleAPIError"

\* A sleep after every failed attempt, the last included.
SleepsAfterEvery(att) == TRUE

\* Line 300: a sleep follows every failed attempt but the last.
SleepsAfter(att) == att < MAX_RETRIES - 1

\* A backoff that starts at 2 seconds.
BackoffFromTwo(att) == 2 ^ (att + 1)

\* Line 301.
Backoff(att) == 2 ^ att

\* Line 290: range(MAX_RETRIES) has a value after att.
LoopHasNext(att) == att + 1 < MAX_RETRIES

\* Lines 309-313: the handlers of the outer try block.
OuterHandler(exc_type) ==
    IF exc_type = "JSONDecodeError"
    THEN ErrorResponse(400, "Invalid JSON body.")
    ELSE ErrorResponse(500, "Server error during processing: ")

Finish(r, resp) ==
    /\ pc' = [pc EXCEPT ![r] = "done"]
    /\ response' = [response EXCEPT ![r] = resp]

\* The loop counter kept in one place for all requests (a module-level
\* attempt): the next iteration of one handler moves every handler's counter.
NextIterationShared(r, last, out) ==
    IF LoopHasNext(attempt[r])
    THEN /\ attempt' = [q \in Requests |-> attempt[r] + 1]
         /\ calls' = [calls EXCEPT ![r] = @ + 1]
         /\ outstanding' = [outstanding EXCEPT ![r] = out + 1]
         /\ pc' = [pc EXCEPT ![r] = "calling"]
         /\ UNCHANGED response
    ELSE /\ Finish(r, UnavailableResponse(last))
         /\ outstanding' = [outstanding EXCEPT ![r] = out]
         /\ UNCHANGED <<attempt, calls>>

\* Line 290 then 292, or 305-307 when the range is used up: out is the number
\* of calls still unanswered, last the error to report.
NextIteration(r, last, out) ==
    IF LoopHasNext(attempt[r])
    THEN /\ attempt' = [attempt EXCEPT ![r] = @ + 1]
         /\ calls' = [calls EXCEPT ![r] = @ + 1]
         /\ outstanding' = [outstanding EXCEPT ![r] = out + 1]
         /\ pc' = [pc EXCEPT ![r] = "calling"]
         /\ UNCHANGED response
    ELSE /\ Finish(r, UnavailableResponse(last))
         /\ outstanding' = [outstanding EXCEPT ![r] = out]
         /\ UNCHANGED <<attempt, calls>>

\* Lines 232-292: the request is parsed and checked, its text extracted, and
\* the first call to the model made.
Receive(r) ==
    /\ pc[r] = "pending"
    /\ UNCHANGED <<request, last_error, last_reply, errors, sleeps, xt, gen>>
    /\ LET body == request[r]
           fc == body.file_content
           fn == body.filename
           x == extract_text(fc, fn)
       IN  CASE body.kind = "bad_json" ->
                  /\ Finish(r, OuterHandler("JSONDecodeError"))
                  /\ UNCHANGED <<cv_text, attempt, calls, outstanding>>
             [] body.kind \in {"bad_utf8", "non_object"} ->
                  \* UnicodeDecodeError from json.loads, AttributeError from data.get
                  /\ Finish(r, OuterHandler("Exception"))
                  /\ UNCHANGED <<cv_text, attempt, calls, outstanding>>
             [] body.kind = "object" /\ (~Truthy(fc) \/ ~Truthy(fn)) ->
                  /\ Finish(r, ErrorResponse(400, "File content or filename is missing."))
                  /\ UNCHANGED <<cv_text, attempt, calls, outstanding>>
             [] body.kind = "object" /\ Truthy(fc) /\ Truthy(fn) ->
                  /\ cv_text' = [cv_text EXCEPT ![r] = [called |-> TRUE, text |-> x.text]]
                  /\ IF x.raised
                     THEN /\ Finish(r, OuterHandler("Exception"))
                          /\ UNCHANGED <<attempt, calls, outstanding>>
                     ELSE IF x.text = <<>>
                     THEN /\ Finish(r, ErrorResponse(400, "Failed to extract text from file."))
                          /\ UNCHANGED <<attempt, calls, outstanding>>
                     ELSE /\ pc' = [pc EXCEPT ![r] = "calling"]
                          /\ calls' = [calls EXCEPT ![r] = @ + 1]
                          /\ outstanding' = [outstanding EXCEPT ![r] = @ + 1]
                          /\ UNCHANGED <<attempt, response>>

\* Lines 297-303 and 309-313: the call of this attempt ended in an exception.
AttemptRaises(r, exc_type, err) ==
    /\ IF CaughtByRetry(exc_type)
       THEN /\ last_error' = [last_error EXCEPT ![r] = err]
            /\ errors' = [errors EXCEPT ![r] = Append(@, err)]
            /\ IF SleepsAfter(attempt[r])
               THEN /\ sleeps' = [sleeps EXCEPT ![r] = Append(@, Backoff(attempt[r]))]
                    /\ pc' = [pc EXCEPT ![r] = "sleeping"]
                    /\ outstanding' = [outstanding EXCEPT ![r] = @ - 1]
                    /\ UNCHANGED <<attempt, calls, response>>
               ELSE /\ NextIteration(r, err, outstanding[r] - 1)
                    /\ UNCHANGED sleeps
       ELSE /\ Finish(r, OuterHandler(exc_type))
            /\ outstanding' = [outstanding EXCEPT ![r] = @ - 1]
            /\ UNCHANGED <<last_error, errors, sleeps, attempt, calls>>

\* generate_content raises a provider error (google.api_core GoogleAPIError).
ModelRaisesProviderError(r, err) ==
    /\ pc[r] = "calling"
    /\ AttemptRaises(r, "GoogleAPIError", err)
    /\ last_reply' = [last_reply EXCEPT ![r] = "GoogleAPIError"]
    /\ UNCHANGED <<request, cv_text, xt, gen>>

\* generate_content or response.text raises anything else.
ModelRaisesOther(r) ==
    /\ pc[r] = "calling"
    /\ AttemptRaises(r, "Exception", "")
    /\ last_reply' = [last_reply EXCEPT ![r] = "Exception"]
    /\ UNCHANGED <<request, cv_text, xt, gen>>

\* Lines 292-296: the model answers with a text, which is parsed.
ModelReturnsText(r, text) ==
    /\ pc[r] = "calling"
    /\ last_reply' = [last_reply EXCEPT ![r] = IF text.parses THEN "json" ELSE "not_json"]
    /\ LET parsed == JsonLoads(text)
       IN  IF parsed.raised
           THEN AttemptRaises(r, "JSONDecodeError", "")
           ELSE /\ Finish(r, SuccessResponse(parsed.value))
                /\ outstanding' = [outstanding EXCEPT ![r] = @ - 1]
                /\ UNCHANGED <<last_error, errors, sleeps, attempt, calls>>
    /\ UNCHANGED <<request, cv_text, xt, gen>>

\* Line 303 returns: the loop goes on to its next attempt.
SleepDone(r) ==
    /\ pc[r] = "sleeping"
    /\ NextIteration(r, last_error[r], outstanding[r])
    /\ UNCHANGED <<request, cv_text, last_error, last_reply, errors, sleeps, xt, gen>>

XtOff == [pc |-> "off", base64_content |-> NoneVal, filename |-> NoneVal,
          result |-> Return(<<>>)]

InitLocals ==
    /\ cv_text = [r \in Requests |-> NotExtracted]
    /\ attempt = [r \in Requests |-> 0]
    /\ last_error = [r \in Requests |-> "None"]
    /\ last_reply = [r \in Requests |-> "none"]
    /\ calls = [r \in Requests |-> 0]
    /\ errors = [r \in Requests |-> <<>>]
    /\ outstanding = [r \in Requests |-> 0]
    /\ sleeps = [r \in Requests |-> <<>>]
    /\ response = [r \in Requests |-> NoResponse]

\* One request, any body.
Init ==
    /\ InitLocals
    /\ \E body \in RequestBodies :
          request = [r \in Requests |-> IF r = 1 THEN body ELSE NoRequest]
    /\ pc = [r \in Requests |-> IF r = 1 THEN "pending" ELSE "absent"]
    /\ xt = XtOff
    /\ gen = GenOff

Next ==
    \E r \in Requests :
        \/ Receive(r)
        \/ \E err \in ProviderErrors : ModelRaisesProviderError(r, err)
        \/ ModelRaisesOther(r)
        \/ \E text \in ModelTexts : ModelReturnsText(r, text)
        \/ SleepDone(r)

Spec == Init /\ [][Next]_vars

\* Every request slot taken: the handler runs once per request, concurrently.
InitConc ==
    /\ InitLocals
    /\ request \in [Requests -> ConcBodies]
    /\ pc = [r \in Requests |-> "pending"]
    /\ xt = XtOff
    /\ gen = GenOff

SpecConc == InitConc /\ [][Next]_vars

\* ------------------------------------------------------------------------
\* extract_text on its own: every DOCX document within the bounds under a
\* .docx name, and the sample contents under every sample name.

Alphabet == {" ", "a", "-"}
Styles == {"Normal", "List Bullet"}
TextsUpTo(len) == UNION {[1..n -> Alphabet] : n \in 0..len}
ParagraphsUpTo(len) == [style : Styles, text : TextsUpTo(len)]
ParagraphSeqs(paras, len) == UNION {[1..n -> ParagraphsUpTo(len)] : n \in 0..paras}
DocxRows(cells, len) == UNION {[1..n -> TextsUpTo(len)] : n \in 1..cells}
DocxTables(rows, cells, len) == UNION {[1..n -> DocxRows(cells, len)] : n \in 0..rows}
DocxTableSeqs(rows, cells, len) == {<<>>} \cup {<<t>> : t \in DocxTables(rows, cells, len)}

GeneratedDocx(paras, rows, cells, len) ==
    {DocxFile(ps, ts) : ps \in ParagraphSeqs(paras, len),
                        ts \in DocxTableSeqs(rows, cells, len)}

ExtractArgs(paras, rows, cells, len) ==
    {<<B64Val(TRUE, d), StrVal(NameDocx)>> : d \in GeneratedDocx(paras, rows, cells, len)}
    \cup (ContentValues \X NameValues)

InitExtract ==
    /\ InitLocals
    /\ request = [r \in Requests |-> NoRequest]
    /\ pc = [r \in Requests |-> "absent"]
    /\ \E args \in ExtractArgs(MaxParas, MaxRows, MaxCells, MaxTextLen) :
          xt = [pc |-> "called", base64_content |-> args[1], filename |-> args[2],
                result |-> Return(<<>>)]
    /\ gen = GenOff

\* Lines 171-227, one call.
ExtractText ==
    /\ xt.pc = "called"
    /\ xt' = [xt EXCEPT !.pc = "returned",
                        !.result = extract_text(xt.base64_content, xt.filename)]
    /\ UNCHANGED <<pc, request, cv_text, attempt, last_error, last_reply, calls,
                   errors, outstanding, sleeps, response, gen>>

SpecExtract == InitExtract /\ [][ExtractText]_vars

\* ------------------------------------------------------------------------
\* generate_docx_view on its own: one request, any body.

InitGenerate ==
    /\ InitLocals
    /\ request = [r \in Requests |-> NoRequest]
    /\ pc = [r \in Requests |-> "absent"]
    /\ xt = XtOff
    /\ \E body \in GenBodies :
          gen = [pc |-> "pending", body |-> body, response |-> NoGenResponse]

\* Lines 352-374: the handler runs from the body to its response.
GenerateDocx ==
    /\ gen.pc = "pending"
    /\ gen' = [gen EXCEPT !.pc = "done", !.response = generate_docx_view(gen.body)]
    /\ UNCHANGED <<pc, request, cv_text, attempt, last_error, last_reply, calls,
                   errors, outstanding, sleeps, response, xt>>

SpecGenerate == InitGenerate /\ [][GenerateDocx]_vars

\* ------------------------------------------------------------------------
\* Properties.

Done(r) == pc[r] = "done"

\* The request reached the model: its input was valid and its text not empty.
ReachedModel(r) == cv_text[r].called /\ cv_text[r].text # <<>>

\* Every call made so far ended in a provider error.
AllCallsFailed(r) == calls[r] >= 1 /\ Len(errors[r]) = calls[r]

\* C1: a request that reached the model and whose every call raised a
\* provider error ends after exactly MAX_RETRIES (3) calls, having slept
\* after the first and second failure only (1 s, 2 s), with a 503 response
\* that carries the error of the third call; and no request ever sleeps
\* after its last attempt.
C1_ExhaustedRetries ==
    \A r \in Requests :
        /\ (Done(r) /\ ReachedModel(r) /\ AllCallsFailed(r)) =>
              /\ calls[r] = 3
              /\ calls[r] = MAX_RETRIES
              /\ sleeps[r] = <<1, 2>>
              /\ response[r].status = 503
              /\ response[r].last = errors[r][3]
        /\ (pc[r] = "sleeping") => Len(errors[r]) < MAX_RETRIES
        /\ calls[r] <= MAX_RETRIES

C1_Witness ==
    \E r \in Requests :
        /\ Done(r) /\ ReachedModel(r) /\ AllCallsFailed(r)
        /\ response[r].status = 503
        /\ errors[r][3] # errors[r][2]

\* The delays 2^0, ..., 2^(n-1).
PowersOfTwo(n) == [i \in 1..n |-> 2 ^ (i - 1)]

\* C2: a request whose model raised a provider error n times (n in 0..2)
\* and then returned a body that parses as JSON ends with a 200 success
\* response on call n+1, having slept exactly 2^0, ..., 2^(n-1) seconds in
\* that order; each sleep lies between a failed attempt and the next one:
\* while a call is out, the sleeps so far are one per earlier failure.
C2_SucceedsAfterFailures ==
    \A r \in Requests :
        /\ (Done(r) /\ last_reply[r] = "json") =>
              /\ Len(errors[r]) \in 0..2
              /\ response[r].status = 200
              /\ response[r].success = "true"
              /\ calls[r] = Len(errors[r]) + 1
              /\ attempt[r] = Len(errors[r])
              /\ sleeps[r] = PowersOfTwo(Len(errors[r]))
        /\ (pc[r] = "calling") =>
              /\ calls[r] = Len(errors[r]) + 1
              /\ sleeps[r] = PowersOfTwo(Len(errors[r]))
        /\ (pc[r] = "sleeping") =>
              /\ calls[r] = Len(errors[r])
              /\ sleeps[r] = PowersOfTwo(Len(errors[r]))

C2_Witness ==
    \E r \in Requests :
        /\ Done(r) /\ last_reply[r] = "json"
        /\ Len(errors[r]) = 2
        /\ calls[r] = 3
        /\ sleeps[r] = <<1, 2>>
        /\ response[r].status = 200

\* C3: a model response that does not parse as JSON ends the request with
\* a 500 response.
C3_ParseFailureIs500 ==
    \A r \in Requests :
        (Done(r) /\ last_reply[r] = "not_json") => response[r].status = 500

\* C4: an attempt that ends in anything but a provider error (a body that
\* is not JSON, any other exception) ends the request at once: no further
\* call and no sleep follow it, whatever the number of attempts left.
C4_OnlyProviderErrorsRetried ==
    \A r \in Requests :
        (last_reply[r] \in {"not_json", "Exception"}) =>
            /\ Done(r)
            /\ outstanding[r] = 0
            /\ calls[r] = Len(errors[r]) + 1
            /\ Len(sleeps[r]) = Len(errors[r])
            /\ response[r].status \notin {200, 503}

C4_Witness ==
    \E r \in Requests :
        /\ last_reply[r] = "not_json"
        /\ Done(r)
        /\ calls[r] = 1
        /\ sleeps[r] = <<>>

\* The request body cannot be parsed as JSON.
Unparsable(body) == body.kind \in {"bad_json", "bad_utf8"}

\* The parsed body has no file_content or no filename, or an empty one.
MissingInput(body) ==
    \/ body.kind = "non_object"
    \/ body.kind = "object" /\ (~Truthy(body.file_content) \/ ~Truthy(body.filename))

\* C5: a request whose body cannot be parsed as JSON, or whose file_content
\* or filename is missing or empty, ends with a 400 response with
\* success=false, and neither extract_text nor the model is called for it.
C5_InvalidInputIs400 ==
    \A r \in Requests :
        (Done(r) /\ (Unparsable(request[r]) \/ MissingInput(request[r]))) =>
            /\ response[r].status = 400
            /\ response[r].success = "false"
            /\ ~cv_text[r].called
            /\ calls[r] = 0

\* C6: extract_text never raises: whenever its body raises (unsupported
\* extension, wrong base64 padding, a file its parser rejects, bytes that
\* are not UTF-8, a file name that is no string), the handler gets the empty
\* string; and whenever the handler gets empty text the request ends with a
\* 400 response with success=false and no call to the model.
C6_ExtractionFailureIs400 ==
    \A r \in Requests :
        cv_text[r].called =>
            /\ ExtractTry(request[r].file_content, request[r].filename).raised
                  => cv_text[r].text = <<>>
            /\ (cv_text[r].text = <<>>) =>
                  /\ Done(r)
                  /\ response[r].status = 400
                  /\ response[r].success = "false"
                  /\ calls[r] = 0
                  /\ outstanding[r] = 0

C6_Witness ==
    \E r \in Requests :
        /\ cv_text[r].called
        /\ request[r].filename = StrVal(NameExe)
        /\ request[r].file_content.t = "b64"
        /\ request[r].file_content.payload.fmt = "txt"
        /\ ExtractTry(request[r].file_content, request[r].filename).raised
        /\ response[r].status = 400

\* A failure that is neither input validation, nor empty extraction, nor
\* retry exhaustion: the model call ended in something else than a provider
\* error or a parsable body.
OtherFailure(r) == last_reply[r] \in {"not_json", "Exception"}

\* C7: every request that has ended has one JSON response with status 200,
\* 400, 500 or 503, and a failure that is not input validation, empty
\* extraction or retry exhaustion gives 500 with success=false.
C7_ResponseStatuses ==
    \A r \in Requests :
        Done(r) =>
            /\ response[r].status \in {200, 400, 500, 503}
            /\ OtherFailure(r) =>
                  (response[r].status = 500 /\ response[r].success = "false")

\* validate(value, schema): the types match, and every required member of
\* an object is there.
RECURSIVE Validates(_, _)
Validates(value, schema) ==
    CASE schema.type = "string" -> value.t = "str"
      [] schema.type = "array" ->
           /\ value.t = "arr"
           /\ \A i \in DOMAIN value.items : Validates(value.items[i], schema.items[1])
      [] schema.type = "object" ->
           /\ value.t = "obj"
           /\ \A f \in schema.required : f \in DOMAIN value.fields
           /\ \A f \in (DOMAIN value.fields) \cap (DOMAIN schema.properties) :
                 Validates(value.fields[f], schema.properties[f])

\* C8: the cv_data of every 200 response has every field WB_CV_SCHEMA
\* requires, at the top and in each nested object, as a string or an array
\* and never null.
C8_SuccessHasRequiredFields ==
    \A r \in Requests :
        (Done(r) /\ response[r].status = 200) =>
            Validates(response[r].cv_data, WB_CV_SCHEMA)

\* The lines of a text: what '\n'.join put together, taken apart again.
LinesOf(text) == IF text = <<>> THEN <<>> ELSE Split(text, "\n")

\* The input and the result of the call of extract_text, when it is a DOCX
\* file under a .docx name.
XtDocx ==
    /\ xt.pc = "returned"
    /\ xt.filename.t = "str" /\ Ext(xt.filename.chars) = ExtDocx
    /\ xt.base64_content.t = "b64" /\ xt.base64_content.padding_ok
    /\ xt.base64_content.payload.fmt = "docx"

Occurrences(seq, x) == Cardinality({i \in DOMAIN seq : seq[i] = x})

\* C9: the lines of extract_text's result for a DOCX file are the trimmed
\* non-blank paragraphs, then the rows of the tables, then the trimmed
\* bullet/list paragraphs; so every non-blank bullet paragraph occurs at
\* least twice, and every line is non-blank trimmed text.
C9_DocxLines ==
    XtDocx =>
        LET doc == xt.base64_content.payload
            lines == LinesOf(xt.result.text)
        IN  /\ lines = ParagraphLines(doc.paragraphs) \o TableLines(doc.tables)
                         \o BulletLines(doc.paragraphs)
            /\ \A i \in DOMAIN doc.paragraphs :
                  (IsBullet(doc.paragraphs[i]) /\ Strip(doc.paragraphs[i].text) # <<>>)
                      => Occurrences(lines, Strip(doc.paragraphs[i].text)) >= 2
            /\ \A i \in DOMAIN lines : lines[i] # <<>> /\ Strip(lines[i]) = lines[i]

\* What one request's handler holds and has done.
Local(r) ==
    <<pc[r], request[r], cv_text[r], attempt[r], last_error[r], last_reply[r],
      calls[r], errors[r], outstanding[r], sleeps[r], response[r]>>

\* The attempts of each request follow from its own failures alone, and it
\* never has more than one call out.
C10_OwnBudget ==
    \A r \in Requests :
        /\ outstanding[r] \in {0, 1}
        /\ (outstanding[r] = 1) <=> (pc[r] = "calling")
        /\ calls[r] <= MAX_RETRIES
        /\ (pc[r] = "calling") =>
              (attempt[r] = Len(errors[r]) /\ attempt[r] = Len(sleeps[r]))
        /\ (pc[r] = "sleeping") =>
              (attempt[r] + 1 = Len(errors[r]) /\ attempt[r] + 1 = Len(sleeps[r]))
        /\ (Done(r) /\ response[r].status = 503) => Len(errors[r]) = MAX_RETRIES
        /\ (Done(r) /\ Len(errors[r]) > 0) => response[r].status \in {200, 400, 500, 503}

\* A step belongs to one request and leaves every other request's locals
\* alone; and a request makes a call only when it has none out, either its
\* first or after the backoff sleep that followed a failure.
C10_OwnStep ==
    /\ \E r \in Requests : \A q \in Requests \ {r} : Local(q)' = Local(q)
    /\ \A r \in Requests :
          (calls[r]' # calls[r]) =>
              /\ calls[r]' = calls[r] + 1
              /\ outstanding[r] = 0
              /\ pc[r] \in {"pending", "sleeping"}
              /\ (pc[r] = "sleeping") => last_reply[r] = "GoogleAPIError"

\* C10: concurrent requests are independent (no step of one request changes
\* anything of another; each request's calls, sleeps and response follow from
\* its own failures), and within a request attempts are sequential: at most
\* one call out, the next only after a failure and its backoff sleep.
C10_Independent == [](C10_OwnBudget) /\ [][C10_OwnStep]_vars

C10_Witness ==
    \E r, q \in Requests :
        /\ r # q
        /\ Done(r) /\ response[r].status = 503 /\ Len(errors[r]) = 3
        /\ pc[q] = "calling" /\ calls[q] = 1 /\ errors[q] = <<>>

\* The body of the generate_docx_view request cannot be parsed as JSON.
GenUnparsable(body) == body.kind \in {"bad_json", "bad_utf8"}

\* The parsed body has no cv_data, or an empty one.
GenMissing(body) ==
    \/ body.kind = "non_object"
    \/ body.kind = "object" /\ (~body.has_cv_data \/ ~JTruthy(body.cv_data))

\* The body is valid JSON with a non-empty cv_data mapping.
GenProfile(body) ==
    body.kind = "object" /\ body.has_cv_data /\ body.cv_data.t = "obj"
    /\ JTruthy(body.cv_data)

\* Every request with a non-empty cv_data mapping ends with 500 and
\* success=false, and no request ends with a document download.
GenerateNeverStreams ==
    (gen.pc = "done") =>
        /\ GenProfile(gen.body) =>
              (gen.response.status = 500 /\ gen.response.success = "false")
        /\ ~(gen.response.status = 200 \/ gen.response.attachment)

\* C11: generate_docx_view answers a body with a non-empty cv_data mapping
\* with 500 and success=false, never answers with a document download, and
\* answers 400 to a body that cannot be parsed as JSON or whose cv_data is
\* missing or empty.
C11_GenerateDocxResponses ==
    (gen.pc = "done") =>
        /\ GenProfile(gen.body) =>
              (gen.response.status = 500 /\ gen.response.success = "false")
        /\ ~(gen.response.status = 200 /\ gen.response.attachment)
        /\ (GenUnparsable(gen.body) \/ GenMissing(gen.body)) =>
              gen.response.status = 400

====
